---- MODULE Spec2Model ----
(***************************************************************************)
(* One run of the "Rain Flow" of rain_flow.py: the tasks of the flow, the  *)
(* data dependencies between them, the body of pull_forecast step by step, *)
(* the classifier is_raining_this_week as a function of the JSON payload,  *)
(* the two case branches and the two Slack notifiers.                      *)
(*                                                                         *)
(* A value that Python may leave as None is a set with at most one element *)
(* ({} is None).  A JSON number is a fraction num/den.                     *)
(***************************************************************************)
EXTENDS Integers, Sequences, FiniteSets

VARIABLES
    state,      \* task name -> state of its task run
    run_count,  \* task name -> number of times the task's run method was entered
    pc,         \* position inside the body of pull_forecast
    city,       \* value of the Parameter "City" for this run
    api_key,    \* result of the PrefectSecret task ({} until it has run)
    url,        \* local variable url of pull_forecast
    attempts,   \* one record per attempt of pull_forecast
    artifacts,  \* link artifacts recorded by create_link
    forecast,   \* result of pull_forecast ({} until it has returned)
    rain,       \* result of is_raining_this_week ({} until it has returned)
    raised,     \* exception is_raining_this_week ended with ("None" if none)
    posts,      \* webhook POSTs made by the Slack notifiers, in order
    flowState   \* state of the flow run

vars == <<state, run_count, pc, city, api_key, url, attempts, artifacts,
          forecast, rain, raised, posts, flowState>>

----------------------------------------------------------------------------
(* Bounds of the model *)

MaxLen == 2

----------------------------------------------------------------------------
(* The flow: tasks and their dependencies *)

Notifiers == {"rain_notification", "dry_notification"}

Cases == {"case_True", "case_False"}

Tasks == {"City", "api_key", "pull_forecast", "is_raining_this_week"}
             \cup Cases \cup Notifiers

Stages == {"pull_forecast", "is_raining_this_week"} \cup Notifiers

UpstreamNotifierOutsideCase(t) ==
    CASE t = "pull_forecast"        -> {"City", "api_key"}
      [] t = "is_raining_this_week" -> {"pull_forecast"}
      [] t \in Cases                -> {"is_raining_this_week"}
      [] t = "dry_notification"     -> {"case_False"}
      [] OTHER                      -> {}

Upstream(t) ==
    CASE t = "pull_forecast"        -> {"City", "api_key"}
      [] t = "is_raining_this_week" -> {"pull_forecast"}
      [] t \in Cases                -> {"is_raining_this_week"}
      [] t = "rain_notification"    -> {"case_True"}
      [] t = "dry_notification"     -> {"case_False"}
      [] OTHER                      -> {}

CaseValueBothTrue(c) == TRUE

CaseValue(c) == c = "case_True"

MessageSwapped(n) ==
    IF n = "rain_notification" THEN "NO RAIN in the forecast for this week!"
                               ELSE "RAIN in the forecast for this week!"

Message(n) ==
    IF n = "rain_notification" THEN "RAIN in the forecast for this week!"
                               ELSE "NO RAIN in the forecast for this week!"

max_retries == 2

MaxRetriesEveryTask(t) == max_retries

MaxRetries(t) == IF t = "pull_forecast" THEN max_retries ELSE 0

TriggerClassifierAlwaysRun(t) ==
    IF t = "is_raining_this_week" THEN "always_run" ELSE "all_successful"

Trigger(t) == "all_successful"

DefaultCity == "San Francisco"

Cities == {DefaultCity, "Oakland"}

SecretValue == "WEATHER_API_KEY value"

----------------------------------------------------------------------------
(* Task-run states and the checks made before a task runs *)

FinishedStates == {"Success", "Failed", "Skipped", "TriggerFailed"}

SuccessfulStates == {"Success", "Skipped"}

UpstreamFinished(t) == \A u \in Upstream(t) : state[u] \in FinishedStates

UpstreamSkipped(t) == \E u \in Upstream(t) : state[u] = "Skipped"

TriggerPasses(t) ==
    \/ Trigger(t) = "always_run"
    \/ \A u \in Upstream(t) : state[u] \in SuccessfulStates

Ready(t) == state[t] \in {"Pending", "Retrying"} /\ UpstreamFinished(t)

CanRun(t) == Ready(t) /\ ~UpstreamSkipped(t) /\ TriggerPasses(t)

FailedOrRetryingOneShort(t, count) ==
    IF count < MaxRetries(t) THEN "Retrying" ELSE "Failed"

FailedOrRetrying(t, count) ==
    IF count <= MaxRetries(t) THEN "Retrying" ELSE "Failed"

----------------------------------------------------------------------------
(* JSON payloads of the weather provider *)

Precipitations ==
    { [type |-> "number", num |-> 0, den |-> 1],
      [type |-> "number", num |-> 1, den |-> 2],
      [type |-> "number", num |-> 1, den |-> 1],
      [type |-> "number", num |-> 2, den |-> 1] }

OtherValues ==
    { [type |-> "bool",   num |-> 0, den |-> 1],
      [type |-> "bool",   num |-> 1, den |-> 1],
      [type |-> "string", num |-> 0, den |-> 1],
      [type |-> "null",   num |-> 0, den |-> 1] }

Zero == [type |-> "number", num |-> 0, den |-> 1]

\* an entry of data["list"]: rain is "absent" (no "rain" key), "mapping" (a
\* JSON object) or "other" (any other JSON value); has3h tells whether the
\* object has the key "3h" and value is what it maps to.
Entries ==
    { [rain |-> "absent", has3h |-> FALSE, value |-> Zero],
      [rain |-> "other",  has3h |-> FALSE, value |-> Zero],
      [rain |-> "mapping", has3h |-> FALSE, value |-> Zero] }
    \cup { [rain |-> "mapping", has3h |-> TRUE, value |-> v] :
               v \in Precipitations \cup OtherValues }

Lists == UNION { [1..n -> Entries] : n \in 0..MaxLen }

ErrorBody == [hasList |-> FALSE, list |-> <<>>]

Payloads == {ErrorBody} \cup { [hasList |-> TRUE, list |-> l] : l \in Lists }

----------------------------------------------------------------------------
(* is_raining_this_week *)

Return(b) == [exc |-> "None", value |-> {b}]

Raise(e) == [exc |-> e, value |-> {}]

\* forecast["rain"].get("3h", 0)
Get3h(entry) == IF entry.has3h THEN entry.value ELSE Zero

\* the list comprehension of lines 35-37, for a list whose "rain" values all
\* have a get method
RECURSIVE RainList(_)
RainList(list) ==
    IF list = <<>> THEN <<>>
    ELSE LET forecast_ == Head(list)
             rest == RainList(Tail(list))
         IN  IF forecast_.rain # "absent" THEN <<Get3h(forecast_)>> \o rest
                                          ELSE rest

\* Python can evaluate s >= 1 for a number and for a bool (an int subclass)
Comparable(s) == s.type \in {"number", "bool"}

GE1Strict(s) == s.num > 1 * s.den

\* s >= 1
GE1(s) == s.num >= 1 * s.den

\* sum([s >= 1 for s in rain])
RECURSIVE SumGE1(_)
SumGE1(rainvals) ==
    IF rainvals = <<>> THEN 0
    ELSE (IF GE1(Head(rainvals)) THEN 1 ELSE 0) + SumGE1(Tail(rainvals))

\* data is the upstream result: {} when there is none (None in Python)
is_raining_this_week(data) ==
    IF data = {} THEN Raise("TypeError")
    ELSE LET d == CHOOSE x \in data : TRUE IN
         IF ~d.hasList THEN Raise("KeyError")
         ELSE IF \E i \in DOMAIN d.list : d.list[i].rain = "other"
              THEN Raise("AttributeError")
         ELSE LET rainvals == RainList(d.list) IN
              IF \E i \in DOMAIN rainvals : ~Comparable(rainvals[i])
              THEN Raise("TypeError")
              ELSE Return(SumGE1(rainvals) >= 1)

----------------------------------------------------------------------------
(* pull_forecast *)

base_url == <<"http://api.openweathermap.org/data/2.5/forecast?">>

\* base_url + "appid=" + api_key + "&q=" + city
BuildUrl(c, k) == base_url \o <<"appid=">> \o <<k>> \o <<"&q=">> \o <<c>>

Contains(u, part) == \E i \in DOMAIN u : u[i] = part

\* what requests.get can end with: an exception, or a response
Responses ==
    { [raised |-> TRUE, status |-> 0, body |-> ErrorBody] }
    \cup { [raised |-> FALSE, status |-> 500, body |-> ErrorBody] }
    \cup { [raised |-> FALSE, status |-> 200, body |-> b] : b \in Payloads }

\* r.raise_for_status()
RaiseForStatus(status) == status >= 400 /\ status < 600

NewAttempt == [link |-> "pending", issued |-> FALSE, raised |-> FALSE,
               status |-> 0, body |-> ErrorBody, outcome |-> "running"]

Last(s) == s[Len(s)]

SetLast(s, r) == [s EXCEPT ![Len(s)] = r]

----------------------------------------------------------------------------
(* The run *)

Init ==
    /\ state = [t \in Tasks |-> "Pending"]
    /\ run_count = [t \in Tasks |-> 0]
    /\ pc = "idle"
    /\ city \in Cities
    /\ api_key = {}
    /\ url = <<>>
    /\ attempts = <<>>
    /\ artifacts = <<>>
    /\ forecast = {}
    /\ rain = {}
    /\ raised = "None"
    /\ posts = <<>>
    /\ flowState = "Running"

\* a task downstream of a skipped task is skipped
SkipTask(t) ==
    /\ Ready(t)
    /\ UpstreamSkipped(t)
    /\ state' = [state EXCEPT ![t] = "Skipped"]
    /\ UNCHANGED <<run_count, pc, city, api_key, url, attempts, artifacts,
                   forecast, rain, raised, posts, flowState>>

\* a task whose trigger does not pass never runs
TriggerFail(t) ==
    /\ Ready(t)
    /\ ~UpstreamSkipped(t)
    /\ ~TriggerPasses(t)
    /\ state' = [state EXCEPT ![t] = "TriggerFailed"]
    /\ UNCHANGED <<run_count, pc, city, api_key, url, attempts, artifacts,
                   forecast, rain, raised, posts, flowState>>

\* city = Parameter(name="City", default="San Francisco")
RunParameter ==
    /\ CanRun("City")
    /\ state' = [state EXCEPT !["City"] = "Success"]
    /\ run_count' = [run_count EXCEPT !["City"] = @ + 1]
    /\ UNCHANGED <<pc, city, api_key, url, attempts, artifacts, forecast,
                   rain, raised, posts, flowState>>

\* api_key = PrefectSecret("WEATHER_API_KEY"); the secret may be missing
RunSecret(found) ==
    /\ CanRun("api_key")
    /\ run_count' = [run_count EXCEPT !["api_key"] = @ + 1]
    /\ IF found
       THEN /\ api_key' = {SecretValue}
            /\ state' = [state EXCEPT !["api_key"] = "Success"]
       ELSE /\ api_key' = {}
            /\ state' = [state EXCEPT !["api_key"] =
                             FailedOrRetrying("api_key", run_count'["api_key"])]
    /\ UNCHANGED <<pc, city, url, attempts, artifacts, forecast, rain,
                   raised, posts, flowState>>

\* an attempt of pull_forecast begins: lines 24-25
StartPull ==
    /\ CanRun("pull_forecast")
    /\ state' = [state EXCEPT !["pull_forecast"] = "Running"]
    /\ run_count' = [run_count EXCEPT !["pull_forecast"] = @ + 1]
    /\ url' = BuildUrl(city, CHOOSE k \in api_key : TRUE)
    /\ attempts' = Append(attempts, NewAttempt)
    /\ pc' = "create_link"
    /\ UNCHANGED <<city, api_key, artifacts, forecast, rain, raised, posts,
                   flowState>>

\* the attempt ends with an exception
PullRaises(att) ==
    /\ attempts' = SetLast(attempts, [att EXCEPT !.outcome = "failed"])
    /\ state' = [state EXCEPT !["pull_forecast"] =
                     FailedOrRetrying("pull_forecast", run_count["pull_forecast"])]
    /\ pc' = "idle"
    /\ UNCHANGED forecast

\* link_artifact = create_link(url): the call returns or raises
PullCreateLink(ok) ==
    /\ state["pull_forecast"] = "Running"
    /\ pc = "create_link"
    /\ IF ok
       THEN /\ artifacts' = Append(artifacts, [kind |-> "link", data |-> url])
            /\ attempts' = SetLast(attempts,
                                   [Last(attempts) EXCEPT !.link = "recorded"])
            /\ pc' = "get"
            /\ UNCHANGED <<state, forecast>>
       ELSE /\ PullRaises([Last(attempts) EXCEPT !.link = "failed"])
            /\ UNCHANGED artifacts
    /\ UNCHANGED <<run_count, city, api_key, url, rain, raised, posts,
                   flowState>>

\* r = requests.get(url); r.raise_for_status(); data = r.json(); return data
PullGet(r) ==
    /\ state["pull_forecast"] = "Running"
    /\ pc = "get"
    /\ LET att == [Last(attempts) EXCEPT !.issued = TRUE, !.raised = r.raised,
                                         !.status = r.status, !.body = r.body]
       IN  IF r.raised \/ RaiseForStatus(r.status)
           THEN PullRaises(att)
           ELSE /\ attempts' = SetLast(attempts,
                                       [att EXCEPT !.outcome = "succeeded"])
                /\ forecast' = {r.body}
                /\ state' = [state EXCEPT !["pull_forecast"] = "Success"]
                /\ pc' = "idle"
    /\ UNCHANGED <<run_count, city, api_key, url, artifacts, rain, raised,
                   posts, flowState>>

\* rain = is_raining_this_week(forecast) starts
StartClassify ==
    /\ CanRun("is_raining_this_week")
    /\ state' = [state EXCEPT !["is_raining_this_week"] = "Running"]
    /\ run_count' = [run_count EXCEPT !["is_raining_this_week"] = @ + 1]
    /\ UNCHANGED <<pc, city, api_key, url, attempts, artifacts, forecast,
                   rain, raised, posts, flowState>>

\* is_raining_this_week returns or raises
FinishClassify ==
    /\ state["is_raining_this_week"] = "Running"
    /\ LET res == is_raining_this_week(forecast) IN
         /\ rain' = res.value
         /\ raised' = res.exc
         /\ state' = [state EXCEPT !["is_raining_this_week"] =
                IF res.exc = "None" THEN "Success"
                ELSE FailedOrRetrying("is_raining_this_week",
                                      run_count["is_raining_this_week"])]
    /\ UNCHANGED <<run_count, pc, city, api_key, url, attempts, artifacts,
                   forecast, posts, flowState>>

\* with case(rain, True): / with case(rain, False): the branch is skipped
\* unless rain equals the value of the case
CompareValue(c) ==
    /\ c \in Cases
    /\ CanRun(c)
    /\ run_count' = [run_count EXCEPT ![c] = @ + 1]
    /\ state' = [state EXCEPT ![c] =
                     IF rain = {CaseValue(c)} THEN "Success" ELSE "Skipped"]
    /\ UNCHANGED <<pc, city, api_key, url, attempts, artifacts, forecast,
                   rain, raised, posts, flowState>>

\* rain_notification() / dry_notification() starts
StartNotify(n) ==
    /\ n \in Notifiers
    /\ CanRun(n)
    /\ state' = [state EXCEPT ![n] = "Running"]
    /\ run_count' = [run_count EXCEPT ![n] = @ + 1]
    /\ UNCHANGED <<pc, city, api_key, url, attempts, artifacts, forecast,
                   rain, raised, posts, flowState>>

\* the SlackTask posts its message to the webhook; the delivery may fail
PostNotify(n, delivered) ==
    /\ n \in Notifiers
    /\ state[n] = "Running"
    /\ posts' = Append(posts, [task |-> n, message |-> Message(n),
                               delivered |-> delivered])
    /\ state' = [state EXCEPT ![n] =
                     IF delivered THEN "Success"
                     ELSE FailedOrRetrying(n, run_count[n])]
    /\ UNCHANGED <<run_count, pc, city, api_key, url, attempts, artifacts,
                   forecast, rain, raised, flowState>>

\* the tasks that decide the state of the run: those nothing depends on
ReferenceTasks == {t \in Tasks : \A d \in Tasks : t \notin Upstream(d)}

\* the run ends once every task is finished
FlowFinish ==
    /\ flowState = "Running"
    /\ \A t \in Tasks : state[t] \in FinishedStates
    /\ flowState' = IF \A t \in ReferenceTasks : state[t] \in SuccessfulStates
                    THEN "Success" ELSE "Failed"
    /\ UNCHANGED <<state, run_count, pc, city, api_key, url, attempts,
                   artifacts, forecast, rain, raised, posts>>

Next ==
    \/ \E t \in Tasks : SkipTask(t)
    \/ \E t \in Tasks : TriggerFail(t)
    \/ RunParameter
    \/ \E found \in BOOLEAN : RunSecret(found)
    \/ StartPull
    \/ \E ok \in BOOLEAN : PullCreateLink(ok)
    \/ \E r \in Responses : PullGet(r)
    \/ StartClassify
    \/ FinishClassify
    \/ \E c \in Cases : CompareValue(c)
    \/ \E n \in Notifiers : StartNotify(n)
    \/ \E n \in Notifiers, delivered \in BOOLEAN : PostNotify(n, delivered)
    \/ FlowFinish

Spec == Init /\ [][Next]_vars

----------------------------------------------------------------------------
(* Properties *)

Classifier == "is_raining_this_week"

Finished == flowState # "Running"

\* the notifiers that have posted to the webhook in this run
Fired == {n \in Notifiers : \E i \in DOMAIN posts : posts[i].task = n}

\* a task run that has entered its run method
Executed(t) == state[t] \in {"Running", "Retrying", "Success", "Failed"}

\* C1 (as stated): at the end of every run exactly one of the two notifiers
\* has fired.
C1_ExactlyOneFiresEveryRun == Finished => Cardinality(Fired) = 1

\* C1 (amended): the two notifiers never both fire in a run, and at the end of
\* a run exactly one has fired if and only if is_raining_this_week returned a
\* result; in every other run (the secret is missing, pull_forecast failed on
\* every attempt, is_raining_this_week raised) neither fires.
C1_ExactlyOneIffClassified ==
    /\ Cardinality(Fired) <= 1
    /\ Finished => (Cardinality(Fired) = 1 <=> state[Classifier] = "Success")
    /\ Finished /\ state[Classifier] # "Success" => Fired = {}

C1_Witness ==
    /\ flowState = "Success"
    /\ Fired = {"rain_notification"}
    /\ state["rain_notification"] = "Success"
    /\ state["dry_notification"] = "Skipped"

\* C2: once pull_forecast has failed on every attempt, neither
\* is_raining_this_week nor a notifier ever executes and the run ends failed;
\* a notification is only ever sent in a run whose pull_forecast succeeded.
C2_FetchFailureAborts ==
    /\ state["pull_forecast"] = "Failed" =>
           /\ ~Executed(Classifier)
           /\ run_count[Classifier] = 0
           /\ \A n \in Notifiers : ~Executed(n) /\ run_count[n] = 0
           /\ posts = <<>>
           /\ Finished => flowState = "Failed"
    /\ posts # <<>> => state["pull_forecast"] = "Success"
    /\ (\E t \in Notifiers \cup {Classifier} : Executed(t))
           => state["pull_forecast"] = "Success"

C2_Witness ==
    /\ flowState = "Failed"
    /\ state["pull_forecast"] = "Failed"
    /\ Len(attempts) = 3
    /\ \A i \in DOMAIN attempts : attempts[i].status = 500
    /\ state[Classifier] = "TriggerFailed"
    /\ \A n \in Notifiers : state[n] = "TriggerFailed"

\* C3: pull_forecast is attempted at most 3 times; after a failed attempt it
\* is retried while fewer than 3 attempts were made and it is failed only
\* after the 3rd failed attempt; when an attempt succeeds its result is the
\* body of that attempt's response, which had a success status, and the run
\* does not fail on account of the earlier failed attempts.
C3_RetryPolicy ==
    /\ run_count["pull_forecast"] <= 3
    /\ Len(attempts) = run_count["pull_forecast"]
    /\ state["pull_forecast"] = "Retrying" =>
           /\ run_count["pull_forecast"] < 3
           /\ Last(attempts).outcome = "failed"
    /\ state["pull_forecast"] = "Failed" =>
           /\ run_count["pull_forecast"] = 3
           /\ \A i \in DOMAIN attempts : attempts[i].outcome = "failed"
    /\ (attempts # <<>> /\ Last(attempts).outcome = "failed") =>
           state["pull_forecast"] =
               IF Len(attempts) < 3 THEN "Retrying" ELSE "Failed"
    /\ state["pull_forecast"] = "Success" =>
           /\ Last(attempts).outcome = "succeeded"
           /\ Last(attempts).status = 200
           /\ forecast = {Last(attempts).body}
           /\ \A i \in 1..(Len(attempts) - 1) : attempts[i].outcome = "failed"
    /\ (flowState = "Failed" /\ state["pull_forecast"] = "Success") =>
           \E t \in Notifiers \cup {Classifier} : state[t] = "Failed"

C3_Witness ==
    /\ flowState = "Success"
    /\ Len(attempts) = 3
    /\ attempts[1].status = 500
    /\ attempts[2].status = 500
    /\ attempts[3].status = 200
    /\ forecast = {attempts[3].body}

WellFormedEntry(e) ==
    \/ e.rain = "absent"
    \/ e.rain = "mapping" /\ (e.has3h => e.value.type = "number")

WellFormed(d) ==
    d.hasList /\ \A i \in DOMAIN d.list : WellFormedEntry(d.list[i])

\* some entry carries a rain field whose 3h value is present and at least 1
SomeEntryRains(d) ==
    \E i \in DOMAIN d.list :
        /\ d.list[i].rain = "mapping"
        /\ d.list[i].has3h
        /\ d.list[i].value.num >= d.list[i].value.den

\* C4: on a forecast response with a list of entries, each without a rain
\* field or with a rain object whose 3h value, when present, is a number,
\* is_raining_this_week returns, and it returns true exactly when some entry
\* carries a rain field whose 3h value is >= 1.
C4_ClassifierIff ==
    \A d \in forecast :
        (WellFormed(d) /\ state[Classifier] \in {"Success", "Failed"}) =>
            /\ state[Classifier] = "Success"
            /\ rain = {SomeEntryRains(d)}

C4_Witness ==
    /\ state[Classifier] = "Success"
    /\ rain = {TRUE}
    /\ \E d \in forecast :
           /\ WellFormed(d)
           /\ Len(d.list) = 2
           /\ d.list[1].rain = "mapping" /\ ~d.list[1].has3h
           /\ d.list[2].rain = "mapping" /\ d.list[2].has3h
           /\ d.list[2].value.num = 1 /\ d.list[2].value.den = 1

\* C5: every notification sent is the one the classifier's result selects:
\* after true only the rain notifier posts, with the RAIN message, and the
\* dry notifier is skipped; after false only the dry notifier posts, with the
\* NO RAIN message, and the rain notifier is skipped.
C5_NotifierFollowsClassifier ==
    /\ \A i \in DOMAIN posts :
           /\ rain # {}
           /\ rain = {TRUE} =>
                  /\ posts[i].task = "rain_notification"
                  /\ posts[i].message = "RAIN in the forecast for this week!"
           /\ rain = {FALSE} =>
                  /\ posts[i].task = "dry_notification"
                  /\ posts[i].message = "NO RAIN in the forecast for this week!"
    /\ (Finished /\ rain = {TRUE}) =>
           /\ Fired = {"rain_notification"}
           /\ state["dry_notification"] = "Skipped"
    /\ (Finished /\ rain = {FALSE}) =>
           /\ Fired = {"dry_notification"}
           /\ state["rain_notification"] = "Skipped"

\* scenario A of the specification: list = [{}, {"rain": {"3h": 0.5}}]
C5_Witness ==
    /\ Finished
    /\ \E d \in forecast :
           /\ d.hasList /\ Len(d.list) = 2
           /\ d.list[1].rain = "absent"
           /\ d.list[2].rain = "mapping" /\ d.list[2].has3h
           /\ d.list[2].value = [type |-> "number", num |-> 1, den |-> 2]
    /\ rain = {FALSE}
    /\ posts = <<[task |-> "dry_notification",
                  message |-> "NO RAIN in the forecast for this week!",
                  delivered |-> TRUE]>>
    /\ state["rain_notification"] = "Skipped"

\* C6: no recorded artifact contains the value of the API key secret.
C6_ApiKeyNeverRecorded ==
    \A i \in DOMAIN artifacts : ~Contains(artifacts[i].data, SecretValue)

\* C7: is_raining_this_week never raises: whenever it has run on a response,
\* it has returned a boolean.
C7_ClassifierNeverRaises ==
    state[Classifier] \in {"Success", "Failed"} =>
        /\ state[Classifier] = "Success"
        /\ raised = "None"
        /\ rain # {}

\* C8: is_raining_this_week executes only after an attempt of pull_forecast
\* succeeded, a notifier executes only after is_raining_this_week returned,
\* and at most one of the stages is executing at any time.
C8_StrictlySequential ==
    /\ Executed(Classifier) => state["pull_forecast"] = "Success"
    /\ \A n \in Notifiers :
           Executed(n) => /\ state[Classifier] = "Success"
                          /\ state["pull_forecast"] = "Success"
    /\ Cardinality({t \in Stages : state[t] = "Running"}) <= 1
    /\ state["pull_forecast"] \in {"Running", "Retrying"} =>
           \A t \in Stages \ {"pull_forecast"} : state[t] = "Pending"
    /\ state[Classifier] = "Running" =>
           \A n \in Notifiers : state[n] = "Pending"

C8_Witness ==
    /\ state["dry_notification"] = "Running"
    /\ state[Classifier] = "Success"
    /\ state["pull_forecast"] = "Success"
    /\ state["rain_notification"] \in {"Pending", "Skipped"}

\* C9: in every attempt of pull_forecast the recording of the URL comes before
\* the HTTP GET, and an attempt whose recording failed still issues the
\* request: it does not end failed without having issued it.
C9_LinkRecordingBestEffort ==
    \A i \in DOMAIN attempts :
        /\ attempts[i].issued => attempts[i].link # "pending"
        /\ (attempts[i].link = "failed" /\ attempts[i].outcome = "failed")
               => attempts[i].issued

\* C10: a notifier makes at most one delivery attempt in a run and is never
\* retried; when the delivery fails the notifier is failed, the other notifier
\* does not fire and the run ends failed.
C10_NotifyNotRetried ==
    /\ Len(posts) <= 1
    /\ \A n \in Notifiers : run_count[n] <= 1 /\ state[n] # "Retrying"
    /\ (posts # <<>> /\ ~posts[1].delivered) =>
           /\ state[posts[1].task] = "Failed"
           /\ \A n \in Notifiers \ {posts[1].task} : ~Executed(n)
           /\ Finished => flowState = "Failed"

C10_Witness ==
    /\ flowState = "Failed"
    /\ Len(posts) = 1
    /\ ~posts[1].delivered
    /\ state[posts[1].task] = "Failed"
    /\ state["pull_forecast"] = "Success"

====
